---- MODULE Spec2Model ----
(***************************************************************************)
(* Model of the channel relay bot of src/main.py: the webhook that puts    *)
(* updates on the update queue, the channel-post handler with its dedupe   *)
(* store, and the pure text / markup transformations the handler calls.    *)
(*                                                                         *)
(* Representation.  A Python str is a sequence of one-character strings.   *)
(* An optional value (None or a value v) is the sequence << >> or <<v>>.   *)
(***************************************************************************)
EXTENDS Integers, Sequences, FiniteSets, TLC

(* ------------------------------------------------------------------ *)
(* Bounds of the model                                                 *)
(* ------------------------------------------------------------------ *)
\* number of updates the webhook receives in one run
MaxUpdates == 2
\* number of buttons of a grid given to the markup converter
MaxButtons == 3
\* number of styled ranges of a text given to the rewriter and the extractor
MaxRanges == 2

(* ------------------------------------------------------------------ *)
(* Python values                                                       *)
(* ------------------------------------------------------------------ *)
None == << >>

Some(v) == <<v>>

\* bool(x) of an optional str: None and "" are falsy
Truthy(o) == o # None /\ o[1] # << >>

\* x or d, for an optional str x and a str d
OrElse(o, d) == IF Truthy(o) THEN o[1] ELSE d

Min(a, b) == IF a < b THEN a ELSE b

\* text[a:b] with Python's clamping of the indices (a, b >= 0)
Slice(text, a, b) == SubSeq(text, a + 1, Min(b, Len(text)))

\* text[a:]
SliceFrom(text, a) == SubSeq(text, a + 1, Len(text))

\* sub in s
Contains(s, sub) ==
    \E i \in 0..(Len(s) - Len(sub)) : SubSeq(s, i + 1, i + Len(sub)) = sub

\* s.find(sub) over the characters of the set cs: least index of one of them, or Len(s)
FirstOf(s, cs) ==
    IF \E i \in 1..Len(s) : s[i] \in cs
    THEN (CHOOSE i \in 1..Len(s) : s[i] \in cs /\ \A j \in 1..(i - 1) : s[j] \notin cs) - 1
    ELSE Len(s)

Digits == <<"0", "1", "2", "3", "4", "5", "6", "7", "8", "9">>

RECURSIVE NatStr(_)
NatStr(n) == IF n < 10 THEN <<Digits[n + 1]>> ELSE NatStr(n \div 10) \o <<Digits[(n % 10) + 1]>>

\* str(n) of an int
IntStr(n) == IF n < 0 THEN <<"-">> \o NatStr(0 - n) ELSE NatStr(n)

UpperCase == {"A", "B", "E", "O", "R", "T", "X"}

\* c.lower() on the letters of the model's alphabet
LowerChar(c) ==
    CASE c = "A" -> "a"
      [] c = "B" -> "b"
      [] c = "E" -> "e"
      [] c = "O" -> "o"
      [] c = "R" -> "r"
      [] c = "T" -> "t"
      [] c = "X" -> "x"
      [] OTHER -> c

\* s.lower()
Lower(s) == [i \in 1..Len(s) |-> LowerChar(s[i])]

\* one character outside the Basic Multilingual Plane (one element of a Python
\* str, two UTF-16 code units)
Wide == "U+1F600"

Letters == {"a", "b", "c", "e", "g", "h", "k", "l", "n", "o", "p", "r", "t", "u", "x", "y"} \cup UpperCase

(* ------------------------------------------------------------------ *)
(* Terabox detection and redirect                                      *)
(* ------------------------------------------------------------------ *)
TERABOX_RE_FRAGMENT == <<"t", "e", "r", "a", "b", "o", "x">>

SchemeChars == Letters \cup {"0", "1", "2", "3", "4", "5", "6", "7", "8", "9", "+", "-", "."}

\* urlparse: the part of url after the scheme, if url starts with a scheme
AfterScheme(url) ==
    LET i == FirstOf(url, {":"}) IN
    IF /\ i > 0
       /\ i < Len(url)
       /\ url[1] \in Letters
       /\ \A j \in 1..i : url[j] \in SchemeChars
    THEN SliceFrom(url, i + 1)
    ELSE url

\* urlparse(url).netloc: after "//", up to the first of "/", "?", "#"
Netloc(url) ==
    LET rest == AfterScheme(url) IN
    IF Slice(rest, 0, 2) = <<"/", "/">>
    THEN LET r2 == SliceFrom(rest, 2) IN Slice(r2, 0, FirstOf(r2, {"/", "?", "#"}))
    ELSE << >>

\* urlparse raises ValueError("Invalid IPv6 URL") on an unbalanced bracket in the netloc
UrlparseRaises(url) ==
    LET n == Netloc(url) IN
    \/ Contains(n, <<"[">>) /\ ~Contains(n, <<"]">>)
    \/ Contains(n, <<"]">>) /\ ~Contains(n, <<"[">>)

\* only the host is searched for the marker
IsTeraboxHostOnly(url) ==
    IF UrlparseRaises(url)
    THEN FALSE
    ELSE Contains(Lower(Netloc(url)), TERABOX_RE_FRAGMENT)

is_terabox_url(url) ==
    IF UrlparseRaises(url)
    THEN FALSE
    ELSE \/ Contains(Lower(Netloc(url)), TERABOX_RE_FRAGMENT)
         \/ Contains(Lower(url), TERABOX_RE_FRAGMENT)

\* quote_plus of one character
QuoteChar(c) ==
    CASE c \in Letters \cup {"0", "1", "2", "3", "4", "5", "6", "7", "8", "9", "_", ".", "-", "~"} -> <<c>>
      [] c = " " -> <<"+">>
      [] c = "/" -> <<"%", "2", "F">>
      [] c = ":" -> <<"%", "3", "A">>
      [] c = "?" -> <<"%", "3", "F">>
      [] c = "=" -> <<"%", "3", "D">>
      [] c = "[" -> <<"%", "5", "B">>
      [] c = "]" -> <<"%", "5", "D">>
      [] c = "#" -> <<"%", "2", "3">>
      [] c = "%" -> <<"%", "2", "5">>
      [] c = "+" -> <<"%", "2", "B">>
      [] c = "\\" -> <<"%", "5", "C">>
      [] c = "{" -> <<"%", "7", "B">>
      [] c = "}" -> <<"%", "7", "D">>
      [] c = "(" -> <<"%", "2", "8">>
      [] c = ")" -> <<"%", "2", "9">>
      [] c = Wide -> <<"%", "F", "0", "%", "9", "F", "%", "9", "8", "%", "8", "0">>

RECURSIVE quote_plus(_)
quote_plus(s) == IF s = << >> THEN << >> ELSE QuoteChar(Head(s)) \o quote_plus(Tail(s))

RECURSIVE RStripSlash(_)
\* s.rstrip('/')
RStripSlash(s) ==
    IF s # << >> /\ s[Len(s)] = "/" THEN RStripSlash(SubSeq(s, 1, Len(s) - 1)) ELSE s

build_redirect(base, original_url) ==
    IF base = << >>
    THEN original_url
    ELSE RStripSlash(base) \o <<"/", "?", "u", "=">> \o quote_plus(original_url)

(* ------------------------------------------------------------------ *)
(* Entity-safe text rewrite and link extraction                        *)
(* ------------------------------------------------------------------ *)
\* the entities are walked in the order given
Unsorted(ents) == ents

\* sorted(entities, key=offset): stable insertion by offset
RECURSIVE SortedByOffset(_)
SortedByOffset(ents) ==
    IF ents = << >> THEN << >>
    ELSE LET rest == SortedByOffset(SubSeq(ents, 1, Len(ents) - 1))
             x    == ents[Len(ents)]
             k    == Cardinality({i \in 1..Len(rest) : rest[i].offset <= x.offset})
         IN SubSeq(rest, 1, k) \o <<x>> \o SubSeq(rest, k + 1, Len(rest))

\* a tracked text_link keeps its displayed text
EntityPieceKeepLabel(base, text, ent) ==
    LET ent_text == Slice(text, ent.offset, ent.offset + ent.length) IN
    IF ent.type = "url"
    THEN IF is_terabox_url(ent_text) THEN build_redirect(base, ent_text) ELSE ent_text
    ELSE IF ent.type = "text_link" /\ Truthy(ent.url)
         THEN IF is_terabox_url(ent.url[1]) THEN ent_text ELSE ent.url[1]
         ELSE ent_text

\* a text_link is classified by its displayed text
EntityPieceByLabel(base, text, ent) ==
    LET ent_text == Slice(text, ent.offset, ent.offset + ent.length) IN
    IF ent.type = "url"
    THEN IF is_terabox_url(ent_text) THEN build_redirect(base, ent_text) ELSE ent_text
    ELSE IF ent.type = "text_link" /\ Truthy(ent.url)
         THEN IF is_terabox_url(ent_text) THEN build_redirect(base, ent.url[1]) ELSE ent.url[1]
         ELSE ent_text

\* the piece one entity contributes to the rewritten text
EntityPiece(base, text, ent) ==
    LET ent_text == Slice(text, ent.offset, ent.offset + ent.length) IN
    IF ent.type = "url"
    THEN IF is_terabox_url(ent_text) THEN build_redirect(base, ent_text) ELSE ent_text
    ELSE IF ent.type = "text_link" /\ Truthy(ent.url)
         THEN IF is_terabox_url(ent.url[1]) THEN build_redirect(base, ent.url[1]) ELSE ent.url[1]
         ELSE ent_text

RECURSIVE RewriteFrom(_, _, _, _)
\* the loop of replace_entities_in_text from position last over the sorted entities
RewriteFrom(base, text, ents, last) ==
    IF ents = << >>
    THEN SliceFrom(text, last)
    ELSE LET ent == Head(ents) IN
         Slice(text, last, ent.offset)
           \o EntityPiece(base, text, ent)
           \o RewriteFrom(base, text, Tail(ents), ent.offset + ent.length)

replace_entities_in_text(base, text, entities) ==
    IF entities = << >> THEN text ELSE RewriteFrom(base, text, SortedByOffset(entities), 0)

\* the links are collected in offset order
ExtractSortedByOffset(text, entities) ==
    LET Url(ent) == IF ent.type = "url"
                    THEN Some(Slice(text, ent.offset, ent.offset + ent.length))
                    ELSE IF ent.type = "text_link" THEN ent.url ELSE None
        tracked == SelectSeq(SortedByOffset(entities),
                             LAMBDA ent : Truthy(Url(ent)) /\ is_terabox_url(Url(ent)[1]))
    IN [n \in 1..Len(tracked) |-> Url(tracked[n])[1]]

RECURSIVE extract_terabox_links_from_entities(_, _)
extract_terabox_links_from_entities(text, entities) ==
    IF entities = << >> THEN << >>
    ELSE LET ent  == Head(entities)
             raw  == Slice(text, ent.offset, ent.offset + ent.length)
             rest == extract_terabox_links_from_entities(text, Tail(entities))
         IN IF ent.type = "url"
            THEN (IF is_terabox_url(raw) THEN <<raw>> ELSE << >>) \o rest
            ELSE IF ent.type = "text_link" /\ Truthy(ent.url)
                 THEN (IF is_terabox_url(ent.url[1]) THEN <<ent.url[1]>> ELSE << >>) \o rest
                 ELSE rest

(* ------------------------------------------------------------------ *)
(* Inline markup                                                       *)
(* ------------------------------------------------------------------ *)
\* InlineKeyboardButton(text=..., url=...)
UrlButton(text, url) ==
    [text |-> text, url |-> Some(url), callback_data |-> None, switch_inline_query |-> None]

\* InlineKeyboardButton(text=..., callback_data=...)
CallbackButton(text, data) ==
    [text |-> text, url |-> None, callback_data |-> Some(data), switch_inline_query |-> None]

LinkLabel == <<"l", "i", "n", "k">>

BtnLabel == <<"b", "t", "n">>

Noop == <<"n", "o", "o", "p">>

\* every button URL is wrapped, tracked or not
ConvertButtonRedirectAll(base, btn) ==
    IF Truthy(btn.url)
    THEN UrlButton(IF btn.text # << >> THEN btn.text ELSE LinkLabel, build_redirect(base, btn.url[1]))
    ELSE CallbackButton(IF btn.text # << >> THEN btn.text ELSE BtnLabel,
                        OrElse(btn.callback_data, Noop))

\* the callback data of the source button is not read
ConvertButtonDropData(base, btn) ==
    IF Truthy(btn.url)
    THEN UrlButton(IF btn.text # << >> THEN btn.text ELSE LinkLabel,
                   IF is_terabox_url(btn.url[1]) THEN build_redirect(base, btn.url[1]) ELSE btn.url[1])
    ELSE CallbackButton(IF btn.text # << >> THEN btn.text ELSE BtnLabel, Noop)

\* the body of the loop over the buttons of a row
ConvertButton(base, btn) ==
    IF Truthy(btn.url)
    THEN UrlButton(IF btn.text # << >> THEN btn.text ELSE LinkLabel,
                   IF is_terabox_url(btn.url[1]) THEN build_redirect(base, btn.url[1]) ELSE btn.url[1])
    ELSE CallbackButton(IF btn.text # << >> THEN btn.text ELSE BtnLabel,
                        OrElse(btn.callback_data, Noop))

ConvertRow(base, row) == [j \in 1..Len(row) |-> ConvertButton(base, row[j])]

\* reply_markup is None or Some(grid); a markup object is always truthy
convert_inline_markup(base, reply_markup) ==
    IF reply_markup = None
    THEN None
    ELSE LET grid == reply_markup[1] IN
         Some([i \in 1..Len(grid) |-> ConvertRow(base, grid[i])])

(* ------------------------------------------------------------------ *)
(* Caption                                                             *)
(* ------------------------------------------------------------------ *)
\* str.format parses the template into literal text and replacement fields;
\* a token of kind "bad" stands for a brace that format() rejects
Lit(s) == [kind |-> "lit", lit |-> s, name |-> ""]

Field(n) == [kind |-> "field", lit |-> << >>, name |-> n]

BadBrace == [kind |-> "bad", lit |-> <<"{">>, name |-> ""]

SubsKeys == {"original_text", "source_channel", "source_msg_id", "footer"}

\* CAPTION_TEMPLATE.format(**subs) raises
FormatRaises(template) ==
    \E i \in 1..Len(template) :
        \/ template[i].kind = "bad"
        \/ template[i].kind = "field" /\ template[i].name \notin SubsKeys

Subst(subs, tok) == IF tok.kind = "field" THEN subs[tok.name] ELSE tok.lit

RECURSIVE Format(_, _)
Format(template, subs) ==
    IF template = << >> THEN << >> ELSE Subst(subs, Head(template)) \o Format(Tail(template), subs)

\* the four characters backslash, n, backslash, n of the source literal "\\n\\n"
Sep == <<"\\", "n", "\\", "n">>

build_caption(template, footer, original_text, src_channel, src_msg_id) ==
    LET subs == [original_text |-> original_text,
                 source_channel |-> src_channel,
                 source_msg_id  |-> IntStr(src_msg_id),
                 footer         |-> footer]
    IN IF FormatRaises(template)
       THEN original_text \o Sep \o footer
       ELSE Format(template, subs)

(* ------------------------------------------------------------------ *)
(* Dedupe store: the rows of table forwarded, in insertion order       *)
(* ------------------------------------------------------------------ *)
Row(chat_id, msg_id) == [source_chat_id |-> IntStr(chat_id), source_message_id |-> msg_id]

\* the SELECT compares the key with a value that no row holds
already_forwarded_unmatched(rows, chat_id, msg_id) ==
    \E i \in 1..Len(rows) : rows[i] = Row(chat_id, msg_id) /\ rows[i] = [source_chat_id |-> << >>, source_message_id |-> msg_id]

already_forwarded(rows, chat_id, msg_id) ==
    \E i \in 1..Len(rows) : rows[i] = Row(chat_id, msg_id)

\* the INSERT is never committed
mark_forwarded_uncommitted(rows, chat_id, msg_id) == rows

\* INSERT OR REPLACE: a row with the same primary key is deleted, the new row is inserted
mark_forwarded(rows, chat_id, msg_id) ==
    SelectSeq(rows, LAMBDA r : r # Row(chat_id, msg_id)) \o <<Row(chat_id, msg_id)>>

(* ------------------------------------------------------------------ *)
(* handle_channel_post, up to the destination loop                     *)
(* ------------------------------------------------------------------ *)
\* the comparison without the test that a source channel is configured
FilteredUnguarded(source_channel_id, msg) == IntStr(msg.chat_id) # source_channel_id

\* the early return of the source-channel restriction
Filtered(source_channel_id, msg) ==
    source_channel_id # << >> /\ IntStr(msg.chat_id) # source_channel_id

OriginalText(msg) ==
    IF Truthy(msg.text) THEN msg.text[1]
    ELSE IF Truthy(msg.caption) THEN msg.caption[1] ELSE << >>

MsgEntities(msg) ==
    IF Truthy(msg.text) THEN msg.entities
    ELSE IF Truthy(msg.caption) THEN msg.caption_entities ELSE << >>

OpenLabel == <<"O", "p", "e", "n", " ", "(", "T", "e", "r", "a", "b", "o", "x", ")">>

RECURSIVE TbButtonsFrom(_, _, _)
\* the loop over terabox_links with the set seen
TbButtonsFrom(base, links, seen) ==
    IF links = << >> THEN << >>
    ELSE IF Head(links) \in seen
         THEN TbButtonsFrom(base, Tail(links), seen)
         ELSE <<UrlButton(OpenLabel, build_redirect(base, Head(links)))>>
                \o TbButtonsFrom(base, Tail(links), seen \cup {Head(links)})

\* one button per extracted link, the set seen never consulted
TbButtonsAll(base, links) ==
    [n \in 1..Len(links) |-> UrlButton(OpenLabel, build_redirect(base, links[n]))]

TbButtons(base, links) == TbButtonsFrom(base, links, {})

\* inline_kb as it stands before the destination loop
RelayMarkup(base, msg) ==
    LET terabox_links == extract_terabox_links_from_entities(OriginalText(msg), MsgEntities(msg))
        inline_kb     == IF msg.reply_markup # None
                         THEN convert_inline_markup(base, msg.reply_markup)
                         ELSE None
    IN IF terabox_links # << >>
       THEN IF inline_kb # None
            THEN Some(inline_kb[1] \o <<TbButtons(base, terabox_links)>>)
            ELSE Some(<<TbButtons(base, terabox_links)>>)
       ELSE inline_kb

RelayCaption(c, msg) ==
    build_caption(c.CAPTION_TEMPLATE, c.FOOTER_TEXT,
                  replace_entities_in_text(c.REDIRECT_BASE, OriginalText(msg), MsgEntities(msg)),
                  IntStr(msg.chat_id), msg.message_id)

(* ------------------------------------------------------------------ *)
(* The destination loop                                                *)
(* ------------------------------------------------------------------ *)
\* the branch of the if / elif chain that a message takes
Method(msg, caption) ==
    IF "photo" \in msg.media THEN "send_photo"
    ELSE IF "document" \in msg.media THEN "send_document"
    ELSE IF "video" \in msg.media THEN "send_video"
    ELSE IF "audio" \in msg.media THEN "send_audio"
    ELSE IF "voice" \in msg.media THEN "send_voice"
    ELSE IF "sticker" \in msg.media THEN "send_sticker"
    ELSE IF caption # << >> THEN "send_message" ELSE "forward_message"

MediaMethods == {"send_photo", "send_document", "send_video", "send_audio", "send_voice"}

\* the bot call awaited by task t at its position (t.i, t.phase), with its outcome ok
DeliveryCall(dest_list, t, ok) ==
    LET m    == Method(t.msg, t.caption)
        dest == dest_list[t.i]
        capt == IF t.caption # << >> THEN Some(t.caption) ELSE None
    IN IF m \in MediaMethods
       THEN [dest |-> dest, method |-> m, caption |-> capt, text |-> None,
             reply_markup |-> t.inline_kb, ok |-> ok]
       ELSE IF m = "send_sticker" /\ t.phase = 1
       THEN [dest |-> dest, method |-> m, caption |-> None, text |-> None,
             reply_markup |-> None, ok |-> ok]
       ELSE IF m = "send_sticker"
       THEN [dest |-> dest, method |-> "send_message", caption |-> None, text |-> Some(t.caption),
             reply_markup |-> None, ok |-> ok]
       ELSE IF m = "send_message"
       THEN [dest |-> dest, method |-> m, caption |-> None, text |-> Some(t.caption),
             reply_markup |-> t.inline_kb, ok |-> ok]
       ELSE [dest |-> dest, method |-> m, caption |-> None, text |-> None,
             reply_markup |-> None, ok |-> ok]

\* the caption of a sticker is never sent
AfterCallNoCaption(t, ok) == [i |-> t.i + 1, phase |-> 1, raised |-> FALSE]

\* no except clause: the exception of a failed call leaves the handler
AfterCallUncaught(t, ok) ==
    IF Method(t.msg, t.caption) = "send_sticker" /\ t.phase = 1 /\ ok /\ t.caption # << >>
    THEN [i |-> t.i, phase |-> 2, raised |-> FALSE]
    ELSE [i |-> t.i + 1, phase |-> 1, raised |-> ~ok]

\* where the loop stands after the awaited call returned with outcome ok: a
\* raised exception is caught and logged by the except clause of the loop body
AfterCall(t, ok) ==
    IF Method(t.msg, t.caption) = "send_sticker" /\ t.phase = 1 /\ ok /\ t.caption # << >>
    THEN [i |-> t.i, phase |-> 2, raised |-> FALSE]
    ELSE [i |-> t.i + 1, phase |-> 1, raised |-> FALSE]

(* ------------------------------------------------------------------ *)
(* Inputs of the model: configurations and incoming updates            *)
(* ------------------------------------------------------------------ *)
\* a tracked URL, an untracked URL, a tracked URL in upper case
UrlTracked == <<"/", "/">> \o TERABOX_RE_FRAGMENT \o <<"/", "a">>

UrlPlain == <<"/", "/", "x", ".", "y", "/", "b">>

UrlUpper == <<"/", "/", "T", "E", "R", "A", "B", "O", "X", "/", "c">>

Ent(type, offset, length, url) == [type |-> type, offset |-> offset, length |-> length, url |-> url]

Button(text, url, data, query) ==
    [text |-> text, url |-> url, callback_data |-> data, switch_inline_query |-> query]

Msg(chat_id, message_id, text, entities, caption, caption_entities, media, reply_markup) ==
    [chat_id |-> chat_id, message_id |-> message_id, text |-> text, entities |-> entities,
     caption |-> caption, caption_entities |-> caption_entities, media |-> media,
     reply_markup |-> reply_markup]

ChatIds == {42, 43}

MessageIds == {7, 8, 9, 10}

\* a text post with one tracked plain URL
TextPost(c, m) ==
    Msg(c, m, Some(<<"a", " ">> \o UrlTracked), <<Ent("url", 2, Len(UrlTracked), None)>>,
        None, << >>, {}, None)

\* a sticker that carries a button grid
StickerPost(c, m) ==
    Msg(c, m, None, << >>, None, << >>, {"sticker"},
        Some(<<<<Button(<<"k">>, None, Some(<<"c">>), None)>>>>))

\* a photo whose caption links a tracked URL twice and an untracked URL once
PhotoPost(c, m) ==
    Msg(c, m, None, << >>, Some(<<"a", "b", "c">>),
        <<Ent("text_link", 0, 1, Some(UrlTracked)),
          Ent("text_link", 1, 1, Some(UrlPlain)),
          Ent("text_link", 2, 1, Some(UrlTracked))>>,
        {"photo"},
        Some(<<<<Button(<< >>, Some(UrlUpper), None, None),
                 Button(<<"k">>, None, Some(<<"c">>), None)>>>>))

\* a post with neither text nor media
BarePost(c, m) == Msg(c, m, None, << >>, None, << >>, {}, None)

\* a key identifies one post: a repeated update carries the same post again
PostOf(c, m) ==
    CASE m = 7 -> TextPost(c, m)
      [] m = 8 -> StickerPost(c, m)
      [] m = 9 -> PhotoPost(c, m)
      [] OTHER -> BarePost(c, m)

Posts == {PostOf(c, m) : c \in ChatIds, m \in MessageIds}

Updates == {[channel_post |-> Some(p)] : p \in Posts} \cup {[channel_post |-> None]}

DefaultTemplate == <<Field("original_text"), Lit(Sep), Field("footer")>>

Config(source, dests, base, template, footer) ==
    [SOURCE_CHANNEL_ID |-> source, DEST_LIST |-> dests, REDIRECT_BASE |-> base,
     CAPTION_TEMPLATE |-> template, FOOTER_TEXT |-> footer]

Configs ==
    { Config(<< >>, <<"d1", "d2">>, <<"/", "/", "g", "/">>, DefaultTemplate, <<"k">>),
      Config(<<"4", "2">>, <<"d1">>, << >>, <<Field("original_text")>>, <<"k">>),
      Config(<<"4", "2">>, <<"d1", "d2">>, <<"/", "/", "g">>,
             <<Field("original_text"), Field("source"), BadBrace>>, << >>) }

(* ------------------------------------------------------------------ *)
(* State                                                               *)
(* ------------------------------------------------------------------ *)
VARIABLES
    cfg,           \* the configuration read from the environment at import
    forwarded,     \* the rows of table forwarded
    update_queue,  \* telegram_app.update_queue
    received,      \* number of updates the webhook has accepted
    tasks,         \* invocations of handle_channel_post suspended at an awaited bot call
    last,          \* the invocation that ended most recently
    passed,        \* per key: invocations that went past the duplicate check
    delivering,    \* per key: invocations that made a delivery call
    finished,      \* keys of the invocations that have ended
    attempted,     \* keys for which one invocation has called every destination
    faulted,       \* keys of the invocations in which a store operation raised
    probe          \* one application of a pure function: its argument and its result

vars == <<cfg, forwarded, update_queue, received, tasks, last,
          passed, delivering, finished, attempted, faulted, probe>>

Keys == {Row(c, m) : c \in ChatIds, m \in MessageIds}

KeyOf(msg) == Row(msg.chat_id, msg.message_id)

\* the record of an invocation that has ended in the given state
Ended(state, post, caption, inline_kb, calls, queried, found, after) ==
    [state |-> state, post |-> post, caption |-> caption, inline_kb |-> inline_kb,
     calls |-> calls, queried |-> queried, found |-> found, after_finished |-> after]

NoProbe == [fn |-> "none", arg |-> None, out |-> None, done |-> FALSE]

InitHandler ==
    /\ cfg \in Configs
    /\ forwarded = << >>
    /\ update_queue = << >>
    /\ received = 0
    /\ tasks = << >>
    /\ last = Ended("none", None, << >>, None, << >>, FALSE, FALSE, FALSE)
    /\ passed = [k \in Keys |-> 0]
    /\ delivering = [k \in Keys |-> 0]
    /\ finished = {}
    /\ attempted = {}
    /\ faulted = {}

Init == InitHandler /\ probe = NoProbe

(* ------------------------------------------------------------------ *)
(* Operations                                                          *)
(* ------------------------------------------------------------------ *)
\* POST WEBHOOK_PATH with a valid secret token: the update is put on the queue
telegram_webhook(update) ==
    /\ received < MaxUpdates
    /\ update_queue' = Append(update_queue, update)
    /\ received' = received + 1
    /\ UNCHANGED <<cfg, forwarded, tasks, last, passed, delivering, finished, attempted, faulted, probe>>

\* an application built with concurrent_updates takes the next update at once
CanFetchConcurrent(ts) == TRUE

\* The application built without concurrent_updates awaits each blocking handler
\* before it takes the next update from the queue
CanFetch(ts) == ts = << >>

\* the invocation as it is suspended at its first awaited bot call
NewTask(c, msg, after) ==
    [msg |-> msg, caption |-> RelayCaption(c, msg), inline_kb |-> RelayMarkup(c.REDIRECT_BASE, msg),
     i |-> 1, phase |-> 1, calls |-> << >>, after_finished |-> after]

\* The next update is taken from the queue and handle_channel_post runs up to
\* its first await, or to its end.  check_ok: the SELECT of already_forwarded succeeds.
\* the sqlite3 error is caught around the store operation and the handler
\* carries on to its normal end
StoreErrorSwallowed == "relayed"

\* an exception of already_forwarded or mark_forwarded is not caught in
\* handle_channel_post: the invocation ends with the error
StoreErrorEnd == "error"

process_update(check_ok) ==
    /\ update_queue # << >>
    /\ CanFetch(tasks)
    /\ update_queue' = Tail(update_queue)
    /\ LET post == Head(update_queue).channel_post IN
       IF post = None
       THEN /\ check_ok
            /\ last' = Ended("no-post", None, << >>, None, << >>, FALSE, FALSE, FALSE)
            /\ UNCHANGED <<forwarded, tasks, passed, finished, faulted>>
       ELSE LET msg   == post[1]
                key   == KeyOf(msg)
                after == key \in finished
            IN IF Filtered(cfg.SOURCE_CHANNEL_ID, msg)
               THEN /\ check_ok
                    /\ last' = Ended("skipped-filtered", post, << >>, None, << >>, FALSE, FALSE, after)
                    /\ finished' = finished \cup {key}
                    /\ UNCHANGED <<forwarded, tasks, passed, faulted>>
               ELSE IF ~check_ok
               THEN /\ last' = Ended(StoreErrorEnd, post, << >>, None, << >>, TRUE, FALSE, after)
                    /\ finished' = finished \cup {key}
                    /\ faulted' = faulted \cup {key}
                    /\ UNCHANGED <<forwarded, tasks, passed>>
               ELSE IF already_forwarded(forwarded, msg.chat_id, msg.message_id)
               THEN /\ last' = Ended("skipped-duplicate", post, << >>, None, << >>, TRUE, TRUE, after)
                    /\ finished' = finished \cup {key}
                    /\ UNCHANGED <<forwarded, tasks, passed, faulted>>
               ELSE /\ tasks' = Append(tasks, NewTask(cfg, msg, after))
                    /\ passed' = [passed EXCEPT ![key] = @ + 1]
                    /\ UNCHANGED <<forwarded, last, finished, faulted>>
    /\ UNCHANGED <<cfg, received, delivering, attempted, probe>>

\* the loop ends one destination early
LoopDoneEarly(dest_list, nxt) == nxt.i >= Len(dest_list)

\* for dest in DEST_LIST is exhausted
LoopDone(dest_list, nxt) == nxt.i > Len(dest_list)

Remove(seq, j) == SubSeq(seq, 1, j - 1) \o SubSeq(seq, j + 1, Len(seq))

CalledDests(calls) == {calls[n].dest : n \in 1..Len(calls)}

\* The bot call awaited by task j returns (ok) or raises (~ok), and the handler
\* runs on to its next await or, after the last destination, through
\* mark_forwarded to its end.  commit_ok: the INSERT of mark_forwarded succeeds.
call_returns(j, ok, commit_ok) ==
    /\ j \in 1..Len(tasks)
    /\ LET t     == tasks[j]
           key   == KeyOf(t.msg)
           calls == Append(t.calls, DeliveryCall(cfg.DEST_LIST, t, ok))
           nxt   == AfterCall(t, ok)
           done  == LoopDone(cfg.DEST_LIST, nxt)
       IN /\ delivering' = [delivering EXCEPT ![key] = IF t.calls = << >> THEN @ + 1 ELSE @]
          /\ attempted' = IF {cfg.DEST_LIST[n] : n \in 1..Len(cfg.DEST_LIST)} \subseteq CalledDests(calls)
                          THEN attempted \cup {key} ELSE attempted
          /\ IF nxt.raised
             THEN /\ commit_ok
                  /\ tasks' = Remove(tasks, j)
                  /\ last' = Ended("error", Some(t.msg), t.caption, t.inline_kb, calls, TRUE, FALSE, t.after_finished)
                  /\ finished' = finished \cup {key}
                  /\ UNCHANGED <<forwarded, faulted>>
             ELSE IF ~done
             THEN /\ commit_ok
                  /\ tasks' = [tasks EXCEPT ![j] = [t EXCEPT !.i = nxt.i, !.phase = nxt.phase, !.calls = calls]]
                  /\ UNCHANGED <<forwarded, last, finished, faulted>>
             ELSE IF commit_ok
             THEN /\ forwarded' = mark_forwarded(forwarded, t.msg.chat_id, t.msg.message_id)
                  /\ tasks' = Remove(tasks, j)
                  /\ last' = Ended("relayed", Some(t.msg), t.caption, t.inline_kb, calls, TRUE, FALSE, t.after_finished)
                  /\ finished' = finished \cup {key}
                  /\ UNCHANGED faulted
             ELSE /\ tasks' = Remove(tasks, j)
                  /\ last' = Ended(StoreErrorEnd, Some(t.msg), t.caption, t.inline_kb, calls, TRUE, FALSE, t.after_finished)
                  /\ finished' = finished \cup {key}
                  /\ faulted' = faulted \cup {key}
                  /\ UNCHANGED forwarded
    /\ UNCHANGED <<cfg, update_queue, received, passed, probe>>

Webhook == \E u \in Updates : telegram_webhook(u)

Process == process_update(TRUE)

Deliver == \E j \in 1..Len(tasks), ok \in BOOLEAN : call_returns(j, ok, TRUE)

ProcessStoreFails == process_update(FALSE)

DeliverCommitFails == \E j \in 1..Len(tasks), ok \in BOOLEAN : call_returns(j, ok, FALSE)

\* store operations succeed
Next == Webhook \/ Process \/ Deliver

Spec == Init /\ [][Next]_vars

\* the step of the update fetcher: the head of the queue is taken.  Under Spec
\* these are the steps of Process, and it is enabled exactly when Process is.
Fetch ==
    /\ update_queue # << >>
    /\ CanFetch(tasks)
    /\ update_queue' = Tail(update_queue)

\* the application keeps taking updates and every awaited bot call returns
FairSpec == Spec /\ WF_update_queue(Fetch) /\ WF_vars(Deliver)

\* store operations may raise
NextStoreFault == Next \/ ProcessStoreFails \/ DeliverCommitFails

SpecStoreFault == Init /\ [][NextStoreFault]_vars

(* ------------------------------------------------------------------ *)
(* Pure functions applied to inputs drawn from bounded sets            *)
(* ------------------------------------------------------------------ *)
ProbeButtons ==
    { Button(<<"k">>, Some(UrlUpper), None, None),
      Button(<< >>, Some(UrlPlain), None, None),
      Button(<<"k">>, None, Some(<<"c">>), None),
      Button(<< >>, None, Some(<<"c">>), None),
      Button(<< >>, None, None, Some(<<"q">>)) }

RECURSIVE GridsOf(_)
\* the grids of n buttons in non-empty rows
GridsOf(n) ==
    IF n = 0 THEN {<< >>}
    ELSE UNION {{<<r>> \o g : r \in [1..k -> ProbeButtons], g \in GridsOf(n - k)} : k \in 1..n}

ProbeMarkups == {None} \cup {Some(g) : g \in UNION {GridsOf(n) : n \in 0..MaxButtons}}

\* texts with the offsets at which the ranges of the model start and end
ProbeTexts ==
    { [text |-> <<"/", "/">> \o TERABOX_RE_FRAGMENT \o <<"/", "a", " ", "b">>, cuts |-> {0, 2, 11, 13}],
      [text |-> <<"T", "E", "R", "A", "B", "O", "X">>, cuts |-> {0, 3, 7}] }

\* plain-url, labeled-url with a tracked and with an untracked target, other-style
RangeKinds ==
    { [type |-> "url", url |-> None],
      [type |-> "text_link", url |-> Some(UrlTracked)],
      [type |-> "text_link", url |-> Some(UrlPlain)],
      [type |-> "bold", url |-> None] }

RangesOf(t) ==
    {Ent(k.type, se[1], se[2] - se[1], k.url) :
        k \in RangeKinds, se \in {x \in t.cuts \X t.cuts : x[1] < x[2]}}

\* the range lists of a text, in any order, overlapping or not
RangeListsOf(t) == UNION {[1..n -> RangesOf(t)] : n \in 0..MaxRanges}

ProbeTextArgs ==
    UNION {{[text |-> t.text, entities |-> es] : es \in RangeListsOf(t)} : t \in ProbeTexts}

\* URLs built from a scheme, a host and a tail; a host with one bracket
\* cannot be parsed
ProbeUrls ==
    {scheme \o slashes \o host \o tail :
        scheme \in {<< >>, <<"h", "t", "t", "p", ":">>},
        slashes \in {<< >>, <<"/", "/">>},
        host \in {TERABOX_RE_FRAGMENT, <<"T", "E", "R", "A", "B", "O", "X">>, <<"x", ".", "y">>,
                  <<"[">> \o TERABOX_RE_FRAGMENT, <<"x", "]">>},
        tail \in {<< >>, <<"/", "a">>, <<"/", "t", "e", "r", "a", "B", "o", "x">>,
                  <<"?">> \o TERABOX_RE_FRAGMENT}}

\* original_text, source_channel and source_message_id given to build_caption
ProbeCaptionArgs ==
    {[original_text |-> t, source_channel |-> IntStr(c), source_message_id |-> m] :
        t \in {<< >>, <<"a", " ", "b">>, UrlTracked}, c \in ChatIds, m \in MessageIds}

RECURSIVE Utf16Len(_)
\* the number of UTF-16 code units of a text, the unit of ent.offset and
\* ent.length in a MessageEntity
Utf16Len(s) ==
    IF s = << >> THEN 0 ELSE (IF Head(s) = Wide THEN 2 ELSE 1) + Utf16Len(Tail(s))

\* the entity the source platform sends for a URL between prefix and suffix
AnnotatedUrl(prefix, url) == Ent("url", Utf16Len(prefix), Utf16Len(url), None)

\* posts as the source platform annotates them: a URL between two texts
ProbeAnnotated ==
    {[prefix |-> p, url |-> u, suffix |-> x] :
        p \in {<< >>, <<"a", " ">>, <<Wide>>, <<Wide, " ">>},
        u \in {UrlTracked, UrlPlain, UrlTracked \o <<Wide>>},
        x \in {<< >>, <<" ", "b">>, <<" ", Wide>>}}

InitPure ==
    /\ InitHandler
    /\ \/ probe \in {[fn |-> "convert_inline_markup", arg |-> m, out |-> None, done |-> FALSE] :
                       m \in ProbeMarkups}
       \/ probe \in {[fn |-> "relay_text", arg |-> a, out |-> None, done |-> FALSE] :
                       a \in ProbeTextArgs}
       \/ probe \in {[fn |-> "is_terabox_url", arg |-> u, out |-> None, done |-> FALSE] :
                       u \in ProbeUrls}
       \/ probe \in {[fn |-> "build_caption", arg |-> a, out |-> None, done |-> FALSE] :
                       a \in ProbeCaptionArgs}
       \/ probe \in {[fn |-> "relay_annotated", arg |-> a, out |-> None, done |-> FALSE] :
                       a \in ProbeAnnotated}

ApplyConvert ==
    /\ probe.fn = "convert_inline_markup"
    /\ ~probe.done
    /\ probe' = [probe EXCEPT !.out = convert_inline_markup(cfg.REDIRECT_BASE, probe.arg),
                              !.done = TRUE]
    /\ UNCHANGED <<cfg, forwarded, update_queue, received, tasks, last,
                   passed, delivering, finished, attempted, faulted>>

\* new_text, terabox_links and inline_kb of a text post without buttons
ApplyRelayText ==
    /\ probe.fn = "relay_text"
    /\ ~probe.done
    /\ LET msg == Msg(42, 7, Some(probe.arg.text), probe.arg.entities, None, << >>, {}, None) IN
       probe' = [probe EXCEPT
                   !.out = [new_text |-> replace_entities_in_text(cfg.REDIRECT_BASE,
                                             OriginalText(msg), MsgEntities(msg)),
                            terabox_links |-> extract_terabox_links_from_entities(
                                             OriginalText(msg), MsgEntities(msg)),
                            inline_kb |-> RelayMarkup(cfg.REDIRECT_BASE, msg)],
                   !.done = TRUE]
    /\ UNCHANGED <<cfg, forwarded, update_queue, received, tasks, last,
                   passed, delivering, finished, attempted, faulted>>

ApplyIsTerabox ==
    /\ probe.fn = "is_terabox_url"
    /\ ~probe.done
    /\ probe' = [probe EXCEPT !.out = is_terabox_url(probe.arg), !.done = TRUE]
    /\ UNCHANGED <<cfg, forwarded, update_queue, received, tasks, last,
                   passed, delivering, finished, attempted, faulted>>

ApplyCaption ==
    /\ probe.fn = "build_caption"
    /\ ~probe.done
    /\ probe' = [probe EXCEPT
                   !.out = build_caption(cfg.CAPTION_TEMPLATE, cfg.FOOTER_TEXT,
                                         probe.arg.original_text, probe.arg.source_channel,
                                         probe.arg.source_message_id),
                   !.done = TRUE]
    /\ UNCHANGED <<cfg, forwarded, update_queue, received, tasks, last,
                   passed, delivering, finished, attempted, faulted>>

\* new_text and terabox_links of a text post with one url entity whose offset
\* and length are counted in UTF-16 code units
ApplyAnnotated ==
    /\ probe.fn = "relay_annotated"
    /\ ~probe.done
    /\ LET text     == probe.arg.prefix \o probe.arg.url \o probe.arg.suffix
           entities == <<AnnotatedUrl(probe.arg.prefix, probe.arg.url)>>
       IN probe' = [probe EXCEPT
                      !.out = [new_text |-> replace_entities_in_text(cfg.REDIRECT_BASE,
                                                text, entities),
                               terabox_links |-> extract_terabox_links_from_entities(
                                                text, entities)],
                      !.done = TRUE]
    /\ UNCHANGED <<cfg, forwarded, update_queue, received, tasks, last,
                   passed, delivering, finished, attempted, faulted>>

NextPure ==
    ApplyConvert \/ ApplyRelayText \/ ApplyIsTerabox \/ ApplyCaption \/ ApplyAnnotated

PureSpec == InitPure /\ [][NextPure]_vars

(* ------------------------------------------------------------------ *)
(* Properties                                                          *)
(* ------------------------------------------------------------------ *)
InStore(k) == \E i \in 1..Len(forwarded) : forwarded[i] = k

DestSet == {cfg.DEST_LIST[n] : n \in 1..Len(cfg.DEST_LIST)}

\* the calls of a call log made to destination d, in order
CallsTo(calls, d) == SelectSeq(calls, LAMBDA c : c.dest = d)

\* C1: with posts processed one after another and a store that works, at most
\* one invocation per key makes delivery calls, and an invocation that starts
\* after an earlier one for its key has ended makes no delivery call and, when
\* it reaches the duplicate check, finds the key in the store.
C1_AtMostOneDelivers ==
    /\ \A k \in Keys : delivering[k] <= 1
    /\ \A j \in 1..Len(tasks) : ~tasks[j].after_finished
    /\ last.after_finished =>
          /\ last.calls = << >>
          /\ last.state \in {"skipped-filtered", "skipped-duplicate"}
          /\ last.queried => last.found

C1_Witness ==
    /\ last.state = "skipped-duplicate"
    /\ last.after_finished
    /\ last.found
    /\ delivering[KeyOf(last.post[1])] = 1

\* C2: a post that went past the filter and the duplicate check is eventually
\* recorded in the store whatever the outcomes of its delivery calls, a relay
\* that has ended has its record also when every call failed, and no invocation
\* starts delivering a post whose record is in the store.  (passed[k] never
\* returns to 0 and a record is never removed, so "infinitely often not passed
\* or recorded" says that a post that passed is recorded from some point on.)
C2_EventuallyRecorded ==
    /\ \A k \in Keys : []<>(passed[k] = 0 \/ InStore(k))
    /\ [](last.state = "relayed" => InStore(KeyOf(last.post[1])))
    /\ [][\A k \in Keys : InStore(k) => delivering'[k] = delivering[k]]_vars

C2_Witness ==
    /\ last.state = "relayed"
    /\ Len(last.calls) = Len(cfg.DEST_LIST)
    /\ Len(cfg.DEST_LIST) = 2
    /\ \A n \in 1..Len(last.calls) : ~last.calls[n].ok
    /\ InStore(KeyOf(last.post[1]))

\* C3: every destination of the configured list is attempted, in the order of
\* the list, whatever the outcome at the others; a failed call neither ends the
\* handler nor keeps the record from being committed.
C3_FailureIsolated ==
    /\ last.state # "error"
    /\ last.state = "relayed" =>
          /\ \A d \in DestSet : CallsTo(last.calls, d) # << >>
          /\ \A n \in 1..(Len(last.calls) - 1) :
                \E a, b \in 1..Len(cfg.DEST_LIST) :
                    /\ a <= b
                    /\ cfg.DEST_LIST[a] = last.calls[n].dest
                    /\ cfg.DEST_LIST[b] = last.calls[n + 1].dest
          /\ InStore(KeyOf(last.post[1]))
    /\ \A j \in 1..Len(tasks) :
          \A n \in 1..(tasks[j].i - 1) : CallsTo(tasks[j].calls, cfg.DEST_LIST[n]) # << >>

C3_Witness ==
    /\ last.state = "relayed"
    /\ Len(cfg.DEST_LIST) = 2
    /\ ~last.calls[1].ok
    /\ last.calls[1].dest = cfg.DEST_LIST[1]
    /\ CallsTo(last.calls, cfg.DEST_LIST[2]) # << >>
    /\ InStore(KeyOf(last.post[1]))

\* C4: no two invocations are past the duplicate check at the same time, for
\* the same key or for any two keys, and while no store operation has raised
\* for a key at most one invocation ever goes past the duplicate check for it.
C4_NoTwoPastCheck ==
    /\ Len(tasks) <= 1
    /\ \A k \in Keys \ faulted : passed[k] <= 1

\* a second update of the key waits on the queue while the relay of the key is suspended
C4_Witness ==
    /\ Len(tasks) = 1
    /\ tasks[1].calls # << >>
    /\ update_queue # << >>
    /\ Head(update_queue).channel_post = Some(tasks[1].msg)

\* the post is one that the source-channel restriction excludes
FilteredCase(post) ==
    /\ post # None
    /\ cfg.SOURCE_CHANNEL_ID # << >>
    /\ IntStr(post[1].chat_id) # cfg.SOURCE_CHANNEL_ID

\* C5: handling a post of a chat other than the configured source channel
\* makes no delivery call, neither queries nor writes the store and leaves it
\* unchanged; a post is filtered only in that case, so none is when no source
\* channel is configured.
C5_FilteredHasNoEffect ==
    /\ [][(/\ update_queue # << >>
           /\ update_queue' = Tail(update_queue)
           /\ FilteredCase(Head(update_queue).channel_post))
          => (/\ forwarded' = forwarded
              /\ tasks' = tasks
              /\ delivering' = delivering
              /\ passed' = passed
              /\ last'.state = "skipped-filtered"
              /\ last'.calls = << >>
              /\ ~last'.queried)]_vars
    /\ [](last.state = "skipped-filtered" => FilteredCase(last.post))
    /\ [](\A j \in 1..Len(tasks) : ~FilteredCase(Some(tasks[j].msg)))

C5_Witness ==
    /\ last.state = "skipped-filtered"
    /\ ~last.queried
    /\ last.calls = << >>
    /\ forwarded # << >>

\* C6: a record is in the store only if one invocation has called every
\* configured destination for that key, the store holds at most one record per
\* key, and a record in the store stays in the store.
C6_RecordAfterAllAttempts ==
    /\ [](\A i \in 1..Len(forwarded) : forwarded[i] \in attempted)
    /\ [](\A i, j \in 1..Len(forwarded) : i # j => forwarded[i] # forwarded[j])
    /\ [][\A k \in Keys : InStore(k) => InStore(k)']_vars

C6_Witness ==
    /\ Len(forwarded) = 2
    /\ last.state = "relayed"
    /\ Len(cfg.DEST_LIST) = 2
    /\ \E n \in 1..Len(last.calls) : ~last.calls[n].ok

\* the last invocation relayed a sticker with a non-empty rendered caption
StickerRelayed ==
    /\ last.state = "relayed"
    /\ last.post[1].media = {"sticker"}
    /\ last.caption # << >>

StickerAndCaption(cs) ==
    /\ Len(cs) = 2
    /\ cs[1].method = "send_sticker"
    /\ cs[2].method = "send_message"
    /\ cs[2].text = Some(last.caption)

\* C7 as stated: exactly two calls per destination, the sticker and then the caption.
C7_Original ==
    StickerRelayed => \A d \in DestSet : StickerAndCaption(CallsTo(last.calls, d))

\* C7 as amended: at a destination where send_sticker succeeds, exactly two
\* calls are made, the sticker and then a plain message with the caption; at a
\* destination where send_sticker fails, that call is the only one.
C7_StickerThenCaption ==
    StickerRelayed =>
        \A d \in DestSet :
            LET cs == CallsTo(last.calls, d) IN
            /\ cs # << >>
            /\ IF cs[1].ok
               THEN StickerAndCaption(cs)
               ELSE Len(cs) = 1 /\ cs[1].method = "send_sticker"

C7_Witness ==
    /\ StickerRelayed
    /\ Len(cfg.DEST_LIST) = 2
    /\ \A d \in DestSet : StickerAndCaption(CallsTo(last.calls, d))

\* the indices at which a link occurs for the first time
FirstSeen(links) == {i \in 1..Len(links) : \A j \in 1..(i - 1) : links[j] # links[i]}

\* row holds one "Open (Terabox)" button per distinct link, in first-seen order
IsLinkRow(row, links) ==
    /\ Len(row) = Cardinality(FirstSeen(links))
    /\ \A i \in FirstSeen(links) :
          row[Cardinality({j \in FirstSeen(links) : j <= i})]
             = UrlButton(OpenLabel, build_redirect(cfg.REDIRECT_BASE, links[i]))

MarkupAsClaimed(msg, kb) ==
    LET conv  == convert_inline_markup(cfg.REDIRECT_BASE, msg.reply_markup)
        links == extract_terabox_links_from_entities(OriginalText(msg), MsgEntities(msg))
        pre   == IF conv = None THEN << >> ELSE conv[1]
    IN IF links = << >>
       THEN kb = conv
       ELSE /\ kb # None
            /\ Len(kb[1]) = Len(pre) + 1
            /\ SubSeq(kb[1], 1, Len(pre)) = pre
            /\ IsLinkRow(kb[1][Len(pre) + 1], links)

\* the calls of the bot API to which the handler passes reply_markup
CarriesMarkup(msg, c) ==
    \/ c.method \in MediaMethods
    \/ c.method = "send_message" /\ "sticker" \notin msg.media

ConvertApplied == probe.fn = "convert_inline_markup" /\ probe.done

\* C9: convert_inline_markup keeps the number of rows, the number of buttons
\* of each row and the order of the buttons; a button with a url keeps its
\* label ("link" if empty) and carries the redirect of a tracked url and the
\* url itself otherwise; None yields None.
C9_ConvertKeepsStructure ==
    ConvertApplied =>
        IF probe.arg = None
        THEN probe.out = None
        ELSE /\ probe.out # None
             /\ Len(probe.out[1]) = Len(probe.arg[1])
             /\ \A i \in 1..Len(probe.arg[1]) :
                   /\ Len(probe.out[1][i]) = Len(probe.arg[1][i])
                   /\ \A j \in 1..Len(probe.arg[1][i]) :
                         LET b == probe.arg[1][i][j]
                             o == probe.out[1][i][j]
                         IN IF Truthy(b.url)
                            THEN /\ o.text = (IF b.text = << >> THEN LinkLabel ELSE b.text)
                                 /\ o.url = Some(IF is_terabox_url(b.url[1])
                                                 THEN build_redirect(cfg.REDIRECT_BASE, b.url[1])
                                                 ELSE b.url[1])
                            ELSE /\ o.url = None
                                 /\ o.text = (IF b.text = << >> THEN BtnLabel ELSE b.text)

\* a grid of two rows with a tracked and an untracked url button was converted
C9_Witness ==
    /\ ConvertApplied
    /\ probe.arg # None
    /\ Len(probe.arg[1]) = 2
    /\ cfg.REDIRECT_BASE # << >>
    /\ \E i, j \in 1..2 : Len(probe.arg[1][i]) >= j /\ Truthy(probe.arg[1][i][j].url)
                          /\ is_terabox_url(probe.arg[1][i][j].url[1])
    /\ \E i, j \in 1..2 : Len(probe.arg[1][i]) >= j /\ Truthy(probe.arg[1][i][j].url)
                          /\ ~is_terabox_url(probe.arg[1][i][j].url[1])
                          /\ probe.arg[1][i][j].text = << >>
    /\ probe.out # None

\* the buttons without url of the converted grid, as pairs of input and output
NoUrlPairs ==
    IF ~ConvertApplied \/ probe.arg = None \/ probe.out = None THEN {}
    ELSE UNION {{<<probe.arg[1][i][j], probe.out[1][i][j]>> :
                   j \in {n \in 1..Len(probe.arg[1][i]) : ~Truthy(probe.arg[1][i][n].url)}} :
                i \in 1..Len(probe.arg[1])}

\* C10 as stated: the output of a button without url carries exactly the
\* action data of the input button, and only an empty label is replaced.
C10_Original ==
    \A p \in NoUrlPairs :
        /\ p[2].callback_data = p[1].callback_data
        /\ p[2].switch_inline_query = p[1].switch_inline_query
        /\ p[2].url = None
        /\ p[2].text = (IF p[1].text = << >> THEN BtnLabel ELSE p[1].text)

\* C10 as amended: the output of a button without url carries the callback
\* data of the input button when that is non-empty and the callback data
\* "noop" otherwise, and no other action field of the input button; only an
\* empty label is replaced, by "btn".
C10_CallbackOrNoop ==
    \A p \in NoUrlPairs :
        /\ p[2].callback_data =
              Some(IF Truthy(p[1].callback_data) THEN p[1].callback_data[1] ELSE Noop)
        /\ p[2].switch_inline_query = None
        /\ p[2].url = None
        /\ p[2].text = (IF p[1].text = << >> THEN BtnLabel ELSE p[1].text)

\* a grid with a callback button and a button of another action was converted
C10_Witness ==
    /\ \E p \in NoUrlPairs : Truthy(p[1].callback_data) /\ p[2].callback_data = p[1].callback_data
    /\ \E p \in NoUrlPairs : p[1].callback_data = None /\ p[1].switch_inline_query # None
                             /\ p[2].callback_data = Some(Noop)

(* ------------------------------------------------------------------ *)
(* Properties of the rewriter and the extractor                        *)
(* ------------------------------------------------------------------ *)
TextApplied == probe.fn = "relay_text" /\ probe.done

\* no two ranges of the list share a position of the text
NonOverlapping(ents) ==
    \A m, n \in 1..Len(ents) :
        m # n => \/ ents[m].offset + ents[m].length <= ents[n].offset
                 \/ ents[n].offset + ents[n].length <= ents[m].offset

\* the URL a range resolves to: its substring or its target, None for other styles
ResolvedUrl(text, ent) ==
    IF ent.type = "url" THEN Some(SubSeq(text, ent.offset + 1, ent.offset + ent.length))
    ELSE IF ent.type = "text_link" THEN ent.url
    ELSE None

TrackedRange(text, ent) ==
    ResolvedUrl(text, ent) # None /\ is_terabox_url(ResolvedUrl(text, ent)[1])

\* what the described rewriter puts for a range: the redirect of a tracked
\* URL, the displayed substring otherwise
DescribedPiece(base, text, ent) ==
    IF TrackedRange(text, ent)
    THEN build_redirect(base, ResolvedUrl(text, ent)[1])
    ELSE SubSeq(text, ent.offset + 1, ent.offset + ent.length)

RECURSIVE AssembleFrom(_, _, _, _)
\* the text from position i (0-based) on, position by position, with pieces[n]
\* in the place of range ents[n]
AssembleFrom(text, ents, pieces, i) ==
    IF i >= Len(text) THEN << >>
    ELSE LET starting == {n \in 1..Len(ents) : ents[n].offset = i}
             covering == {n \in 1..Len(ents) :
                            ents[n].offset < i /\ i < ents[n].offset + ents[n].length}
         IN (IF starting # {}
             THEN pieces[CHOOSE n \in starting : TRUE]
             ELSE IF covering # {} THEN << >> ELSE <<text[i + 1]>>)
            \o AssembleFrom(text, ents, pieces, i + 1)

DescribedRewrite(base, text, ents) ==
    AssembleFrom(text, ents, [n \in 1..Len(ents) |-> DescribedPiece(base, text, ents[n])], 0)

KindsOf(ents) == {ents[n].type : n \in 1..Len(ents)}

\* C11: for non-overlapping in-bounds ranges of kind plain-url or other-style,
\* in any order, the rewritten text is the text with each tracked plain-url
\* range replaced by its redirect and every other character copied in offset
\* order; with no range it is the text itself.
C11_RewritePlainUrls ==
    (/\ TextApplied
     /\ KindsOf(probe.arg.entities) \subseteq {"url", "bold"}
     /\ NonOverlapping(probe.arg.entities))
    => /\ probe.out.new_text
            = DescribedRewrite(cfg.REDIRECT_BASE, probe.arg.text, probe.arg.entities)
       /\ probe.arg.entities = << >> => probe.out.new_text = probe.arg.text

\* two ranges given in descending offset order, the tracked one rewritten
C11_Witness ==
    /\ TextApplied
    /\ cfg.REDIRECT_BASE # << >>
    /\ Len(probe.arg.entities) = 2
    /\ KindsOf(probe.arg.entities) = {"url"}
    /\ NonOverlapping(probe.arg.entities)
    /\ probe.arg.entities[1].offset > probe.arg.entities[2].offset
    /\ TrackedRange(probe.arg.text, probe.arg.entities[2])
    /\ ~TrackedRange(probe.arg.text, probe.arg.entities[1])
    /\ probe.out.new_text # probe.arg.text

NoneTracked(text, ents) == \A n \in 1..Len(ents) : ~TrackedRange(text, ents[n])

\* C12: when no range of a non-overlapping in-bounds list resolves to a tracked
\* URL, labeled-url ranges with untracked targets included, the rewritten text
\* equals the text.
C12_UntrackedLeftVerbatim ==
    (/\ TextApplied
     /\ NonOverlapping(probe.arg.entities)
     /\ NoneTracked(probe.arg.text, probe.arg.entities))
    => probe.out.new_text = probe.arg.text

\* positions of the list whose range resolves to a tracked URL
TrackedAt(text, ents) == {n \in 1..Len(ents) : TrackedRange(text, ents[n])}

\* C13: for every text and range list, overlapping or not, the extractor
\* returns the resolved URLs of the tracked ranges, one per tracked range, in
\* the order of the list, duplicates kept; the result does not mention the
\* redirect base.
C13_ExtractInGivenOrder ==
    TextApplied =>
        LET text == probe.arg.text
            ents == probe.arg.entities
            at == TrackedAt(text, ents)
            links == probe.out.terabox_links
            \* the list position of the k-th tracked range
            Pos(k) == CHOOSE n \in at : Cardinality({m \in at : m <= n}) = k
        IN /\ Len(links) = Cardinality(at)
           /\ \A k \in 1..Len(links) : links[k] = ResolvedUrl(text, ents[Pos(k)])[1]

\* the same URL extracted twice from a list given in descending offset order
C13_Witness ==
    /\ TextApplied
    /\ cfg.REDIRECT_BASE # << >>
    /\ Len(probe.out.terabox_links) = 2
    /\ probe.out.terabox_links[1] = probe.out.terabox_links[2]
    /\ probe.arg.entities[1].offset > probe.arg.entities[2].offset
    /\ {probe.arg.entities[1].type, probe.arg.entities[2].type} = {"url", "text_link"}

(* ------------------------------------------------------------------ *)
(* Properties of the classifier                                        *)
(* ------------------------------------------------------------------ *)
ClassifierApplied == probe.fn = "is_terabox_url" /\ probe.done

HasMarker(url) == Contains(Lower(url), TERABOX_RE_FRAGMENT)

\* C14 as stated: the classifier answers true exactly for the URLs whose
\* lower-cased form contains the marker, unparsable hosts included.
C14_Original ==
    ClassifierApplied => probe.out = HasMarker(probe.arg)

\* C14: the classifier always returns a boolean; it answers true exactly for
\* the URLs that urlparse accepts and whose lower-cased form contains the
\* marker, in the host or elsewhere; a URL that urlparse rejects is classified
\* as not tracked even when it contains the marker.
C14_MarkerUnlessUnparsable ==
    ClassifierApplied =>
        /\ probe.out \in BOOLEAN
        /\ probe.out = (HasMarker(probe.arg) /\ ~UrlparseRaises(probe.arg))

\* a parsable URL with an untracked host and the marker in upper case after it
C14_Witness ==
    /\ ClassifierApplied
    /\ probe.out
    /\ ~UrlparseRaises(probe.arg)
    /\ ~Contains(Lower(Netloc(probe.arg)), TERABOX_RE_FRAGMENT)
    /\ ~Contains(probe.arg, TERABOX_RE_FRAGMENT)

\* a URL with the marker in a host that cannot be parsed
C14_WitnessUnparsable ==
    /\ ClassifierApplied
    /\ UrlparseRaises(probe.arg)
    /\ HasMarker(probe.arg)
    /\ ~probe.out

(* ------------------------------------------------------------------ *)
(* Properties of the caption                                           *)
(* ------------------------------------------------------------------ *)
CaptionApplied == probe.fn = "build_caption" /\ probe.done

\* the line feed character
Newline == "\n"

\* C15: build_caption returns a string in every case: when rendering the
\* template fails, original_text followed by two newline characters and the
\* footer; when it succeeds, the template with the four fields substituted.
C15_FallbackWithNewlines ==
    CaptionApplied =>
        IF FormatRaises(cfg.CAPTION_TEMPLATE)
        THEN probe.out = probe.arg.original_text \o <<Newline, Newline>> \o cfg.FOOTER_TEXT
        ELSE probe.out = Format(cfg.CAPTION_TEMPLATE,
                                [original_text  |-> probe.arg.original_text,
                                 source_channel |-> probe.arg.source_channel,
                                 source_msg_id  |-> IntStr(probe.arg.source_message_id),
                                 footer         |-> cfg.FOOTER_TEXT])

(* ------------------------------------------------------------------ *)
(* Properties of the handler: store failures and termination           *)
(* ------------------------------------------------------------------ *)
\* C16: a step in which a store operation raises ends the invocation in the
\* error state and writes nothing to the store; when the duplicate check
\* raised, no delivery call was or is made for the post and no invocation is
\* left running for it; when the commit raised, every destination had been
\* attempted and the post is not in the store.
C16_StoreFailureIsFatal ==
    [][faulted' # faulted =>
         /\ last'.state = "error"
         /\ forwarded' = forwarded
         /\ IF update_queue' # update_queue
            THEN /\ last'.calls = << >>
                 /\ tasks' = tasks
                 /\ delivering' = delivering
                 /\ attempted' = attempted
            ELSE /\ Len(tasks') = Len(tasks) - 1
                 /\ DestSet \subseteq CalledDests(last'.calls)
                 /\ ~(InStore(KeyOf(last.post[1])))'
    ]_vars

\* the commit raised after deliveries to two destinations, one of them failed
C16_Witness ==
    /\ last.state = "error"
    /\ KeyOf(last.post[1]) \in faulted
    /\ Len(cfg.DEST_LIST) = 2
    /\ DestSet \subseteq CalledDests(last.calls)
    /\ \E n \in 1..Len(last.calls) : ~last.calls[n].ok
    /\ ~InStore(KeyOf(last.post[1]))

\* the duplicate check raised for a post of the source channel
C16_WitnessCheckFails ==
    /\ last.state = "error"
    /\ KeyOf(last.post[1]) \in faulted
    /\ last.calls = << >>
    /\ delivering[KeyOf(last.post[1])] = 0

\* C17: when every delivery call returns and the store works, an invocation
\* does not stay suspended for ever, and every invocation for a post ends in
\* one of skipped-filtered, skipped-duplicate, relayed; the two skipped states
\* are reached in one step that makes no delivery call and leaves the store as
\* it was, and relayed is reached only with every destination attempted and
\* the post in the store.
C17_TerminatesInOneOfThree ==
    /\ []<>(tasks = << >>)
    /\ [](last.post # None =>
            last.state \in {"skipped-filtered", "skipped-duplicate", "relayed"})
    /\ [](last.state \in {"skipped-filtered", "skipped-duplicate"} => last.calls = << >>)
    /\ [][last'.state \in {"skipped-filtered", "skipped-duplicate"} /\ last' # last =>
            /\ forwarded' = forwarded
            /\ delivering' = delivering
            /\ tasks' = tasks]_vars
    /\ [](last.state = "relayed" =>
            /\ DestSet \subseteq CalledDests(last.calls)
            /\ InStore(KeyOf(last.post[1])))

\* the same post came twice: relayed the first time, skipped the second time
C17_Witness ==
    /\ last.state = "skipped-duplicate"
    /\ last.after_finished
    /\ InStore(KeyOf(last.post[1]))
    /\ update_queue = << >>
    /\ tasks = << >>

(* ------------------------------------------------------------------ *)
(* Labeled links; rewriter and extractor together                      *)
(* ------------------------------------------------------------------ *)
LabeledTracked(text, ent) == ent.type = "text_link" /\ TrackedRange(text, ent)

LabeledUntracked(text, ent) == ent.type = "text_link" /\ ~TrackedRange(text, ent)

\* C18: in a non-overlapping in-bounds list with a labeled-url range whose
\* target is tracked (and no labeled-url range with an untracked target), the
\* redirect of the target stands in the place of the displayed substring of
\* each such range, and the rest of the text is as the rewriter of plain-url
\* ranges leaves it.
C18_LabelReplacedByRedirect ==
    (/\ TextApplied
     /\ NonOverlapping(probe.arg.entities)
     /\ \E n \in 1..Len(probe.arg.entities) :
            LabeledTracked(probe.arg.text, probe.arg.entities[n])
     /\ \A n \in 1..Len(probe.arg.entities) :
            ~LabeledUntracked(probe.arg.text, probe.arg.entities[n]))
    => probe.out.new_text
         = DescribedRewrite(cfg.REDIRECT_BASE, probe.arg.text, probe.arg.entities)

\* one labeled range with a tracked target over an untracked label
C18_Witness ==
    /\ TextApplied
    /\ cfg.REDIRECT_BASE # << >>
    /\ Len(probe.arg.entities) = 1
    /\ LabeledTracked(probe.arg.text, probe.arg.entities[1])
    /\ ~is_terabox_url(SubSeq(probe.arg.text, probe.arg.entities[1].offset + 1,
                              probe.arg.entities[1].offset + probe.arg.entities[1].length))
    /\ Contains(probe.out.new_text, build_redirect(cfg.REDIRECT_BASE, UrlTracked))

\* the URLs the extractor returned
ExtractedUrls == {probe.out.terabox_links[k] : k \in 1..Len(probe.out.terabox_links)}

\* the range carries a URL that the extractor returned
Extracted(text, ent) ==
    ResolvedUrl(text, ent) # None /\ ResolvedUrl(text, ent)[1] \in ExtractedUrls

\* the redirect of the URL of a range
RedirectOf(text, ent) == build_redirect(cfg.REDIRECT_BASE, ResolvedUrl(text, ent)[1])

\* what stands in the place of a range the rewriter does not redirect: the
\* target of a labeled range, the substring of any other range
Unredirected(text, ent) ==
    IF ent.type = "text_link"
    THEN ent.url[1]
    ELSE SubSeq(text, ent.offset + 1, ent.offset + ent.length)

\* C20: for a non-overlapping in-bounds range list, the rewritten text has a
\* redirect exactly in the place of the ranges whose URL the extractor
\* returned; the extra button row is appended if and only if there is such a
\* range; the URLs of its buttons are the redirects of these ranges, each of
\* which occurs in the rewritten text.
C20_RewriterAndExtractorAgree ==
    (TextApplied /\ NonOverlapping(probe.arg.entities)) =>
        LET text == probe.arg.text
            ents == probe.arg.entities
            hit  == {n \in 1..Len(ents) : Extracted(text, ents[n])}
            kb   == probe.out.inline_kb
        IN /\ probe.out.new_text
                = AssembleFrom(text, ents,
                               [n \in 1..Len(ents) |->
                                   IF n \in hit THEN RedirectOf(text, ents[n])
                                   ELSE Unredirected(text, ents[n])], 0)
           /\ (kb # None) <=> (hit # {})
           /\ kb # None =>
                /\ Len(kb[1]) = 1
                /\ {kb[1][1][b].url : b \in 1..Len(kb[1][1])}
                      = {Some(RedirectOf(text, ents[n])) : n \in hit}
                /\ \A b \in 1..Len(kb[1][1]) :
                      /\ kb[1][1][b].text = OpenLabel
                      /\ Contains(probe.out.new_text, kb[1][1][b].url[1])

\* a labeled range with a tracked target over an untracked label, and an
\* untracked plain-url range: one button, one redirect in the text
C20_Witness ==
    /\ TextApplied
    /\ NonOverlapping(probe.arg.entities)
    /\ cfg.REDIRECT_BASE # << >>
    /\ Len(probe.arg.entities) = 2
    /\ LabeledTracked(probe.arg.text, probe.arg.entities[1])
    /\ ~is_terabox_url(SubSeq(probe.arg.text, probe.arg.entities[1].offset + 1,
                              probe.arg.entities[1].offset + probe.arg.entities[1].length))
    /\ probe.arg.entities[2].type = "url"
    /\ ~TrackedRange(probe.arg.text, probe.arg.entities[2])
    /\ probe.out.inline_kb # None
    /\ Len(probe.out.inline_kb[1][1]) = 1

(* ------------------------------------------------------------------ *)
(* Offsets counted in UTF-16 code units                                *)
(* ------------------------------------------------------------------ *)
AnnotatedApplied == probe.fn = "relay_annotated" /\ probe.done

\* C19: with the offset and the length of a plain-url range counted in UTF-16
\* code units, the range is resolved to the annotated URL and the text before
\* and after it is copied intact, also when characters of two code units
\* precede the range or lie inside it.
C19_AnnotatedSpanResolved ==
    AnnotatedApplied =>
        LET url == probe.arg.url IN
        IF is_terabox_url(url)
        THEN /\ probe.out.new_text
                  = probe.arg.prefix \o build_redirect(cfg.REDIRECT_BASE, url) \o probe.arg.suffix
             /\ probe.out.terabox_links = <<url>>
        ELSE /\ probe.out.new_text = probe.arg.prefix \o url \o probe.arg.suffix
             /\ probe.out.terabox_links = << >>

\* without a character of two code units the annotated URL is resolved
C19_NarrowOnly ==
    (/\ AnnotatedApplied
     /\ Utf16Len(probe.arg.prefix \o probe.arg.url) = Len(probe.arg.prefix \o probe.arg.url))
    => C19_AnnotatedSpanResolved

====
